---- MODULE Spec2Model ----
(***************************************************************************)
(* Model of the chat server of server/routes.ts and server/storage.ts:     *)
(* the POST /api/messages handler, the WebSocket connection registry, the  *)
(* broadcaster, the streaming AI turn (callQwenAPI) and the message store. *)
(*                                                                         *)
(* A handler is cut into one action per stretch of code between two        *)
(* awaits that leave the event loop (storage, fetch, reader.read); the     *)
(* code between two such awaits runs without interleaving.                 *)
(***************************************************************************)
EXTENDS Integers, Sequences, FiniteSets, TLC

(* ------------------------------ bounds -------------------------------- *)

\* Rows the store holds in the storage-only specification.
MaxRows == 2
\* reader.read() results carrying a line, per AI turn.
MaxChunks == 2
\* 'typing' frames the handles send, all together.
MaxFrames == 2
\* Presence events on a handle after which no second 'auth' frame is taken.
MaxStatus == 3

\* The populations: two WebSocket handles, two POST /api/messages requests
\* (and the AI turns they may start), two users.
Conns == {1, 2}
Reqs == {1, 2}
\* The request, or the handle, that acts where one is enough.
Solo == {1}
Users == {"u1", "u2"}
\* null / undefined of the source.
None == "none"
\* a field missing from a request body.
Absent == "absent"
\* null / undefined where an object is held otherwise (a body, a message).
NoObject == [none |-> TRUE]
\* text a delta can carry; "" is a delta without content.
Deltas == {"a", "b"}
\* content of a user's message, as a sequence of tokens.
UserText == <<"hi">>

VARIABLES
    clients,     \* the Map<WebSocket, ClientInfo>: handle -> [userId]
    readyState,  \* ws.readyState of every handle
    isOnline,    \* users' isOnline column
    messages,    \* the message store, in insertion order
    nextId,      \* ids handed out so far (randomUUID / gen_random_uuid)
    now,         \* the clock read by new Date() / defaultNow()
    closeSeen,   \* handles whose 'close' handler has run
    apiKey,      \* process.env.OPENROUTER_API_KEY is set
    req,         \* POST /api/messages handlers, by request
    turn,        \* callQwenAPI invocations, by triggering request
    log,         \* history: what the submit handlers and the AI turns did
    inbox,       \* chat events sent on each handle while it is open
    statusBox,   \* presence events sent on each handle while it is open
    got,         \* the last GET /api/messages and what it returned
    typing,      \* 'typing' frame handlers, by handle
    skipped,     \* history: handles closed under a submit or a turn in flight
    users,       \* users' username column, by id
    cache,       \* the client of handle 1: its query cache and what it has handled
    hook         \* a client's useWebSocket: its refs, sockets and timers

vars == <<clients, readyState, closeSeen, isOnline, messages, nextId, now, apiKey, hook,
          req, turn, log, inbox, statusBox, got, typing, skipped, users, cache>>

(* ------------------------------ storage ------------------------------- *)

\* `x || d` of the source for a body field.
OrElse(x, d) == IF x = Absent \/ x = None THEN d ELSE x

\* `x || false` for a body field holding "true"/"false".
Truthy(x) == x = "true"

\* A stored message row.
Message(id, content, userId, isAI, t, isTyping, chatType, privateChatUserId) ==
    [id |-> id, content |-> content, userId |-> userId, isAI |-> isAI,
     timestamp |-> t, isTyping |-> isTyping, chatType |-> chatType,
     privateChatUserId |-> privateChatUserId]

\* What new Date() can read after it read `last`.  The server's clock ticks
\* between two inserts here; equal timestamps are explored in SpecStore.
Clock(last) == {last + 1}

\* storage.createMessage: the row it stores for an insert at time t under id.
NewMessage(ins, id, t) ==
    Message(id, ins.content, OrElse(ins.userId, None), Truthy(ins.isAI), t,
            Truthy(ins.isTyping), OrElse(ins.chatType, "general"),
            OrElse(ins.privateChatUserId, None))

createMessage(store, ins, id, t) == Append(store, NewMessage(ins, id, t))

\* A bug updateMessage could have: the update hits every AI row.
updateMessageEveryAI(store, id, content) ==
    [i \in DOMAIN store |->
        IF store[i].isAI THEN [store[i] EXCEPT !.content = content]
        ELSE store[i]]

\* storage.updateMessage(id, {content}): overwrite the content of row id.
updateMessage(store, id, content) ==
    [i \in DOMAIN store |->
        IF store[i].id = id THEN [store[i] EXCEPT !.content = content]
        ELSE store[i]]

\* A bug updateUserOnlineStatus could have: the flag is never written.
updateUserOnlineStatusStuck(tbl, id, v) == tbl

\* storage.updateUserOnlineStatus
updateUserOnlineStatus(tbl, id, v) ==
    IF id \in DOMAIN tbl THEN [tbl EXCEPT ![id] = v] ELSE tbl

\* storage.getUser: the users table is the domain of isOnline.
getUser(id) == IF id \in DOMAIN isOnline THEN id ELSE None

(* ------------------------- storage.getMessages ------------------------ *)

\* `limit` when the caller gives none (routes.ts line 109, storage.ts line 88).
DefaultLimit == 50

\* A JavaScript number as far as the limit goes: an integer or NaN.
Num(n) == [nan |-> FALSE, n |-> n]
NaN == [nan |-> TRUE, n |-> 0]

\* parseInt of the query strings the model sends.
ParseInt(str) ==
    CASE str = "0" -> Num(0)
      [] str = "1" -> Num(1)
      [] str = "2" -> Num(2)
      [] str = "3" -> Num(3)
      [] str = "-1" -> Num(0 - 1)
      [] OTHER -> NaN

\* Lines 109-111: the three arguments GET /api/messages passes on.
\* An empty string is falsy, like a missing parameter.
QueryLimit(q) ==
    IF q.limit \in {Absent, ""} THEN Num(DefaultLimit) ELSE ParseInt(q.limit)
QueryChatType(q) == IF q.chatType \in {Absent, ""} THEN "general" ELSE q.chatType
QueryUserId(q) == IF q.userId = Absent THEN None ELSE q.userId

\* Array.prototype.slice(start): NaN counts as 0, a negative start counts
\* from the end.
SliceFrom(s, start) ==
    LET k == IF start.nan THEN 0
             ELSE IF start.n < 0 THEN (IF Len(s) + start.n < 0 THEN 0
                                       ELSE Len(s) + start.n)
             ELSE IF start.n > Len(s) THEN Len(s) ELSE start.n
    IN SubSeq(s, k + 1, Len(s))

\* -limit
Negate(x) == IF x.nan THEN NaN ELSE Num(0 - x.n)

\* Array.prototype.sort by timestamp: stable, so equal timestamps keep
\* their order.
RECURSIVE InsertByTimestamp(_, _)
InsertByTimestamp(sorted, m) ==
    IF sorted = << >> THEN <<m>>
    ELSE IF sorted[Len(sorted)].timestamp <= m.timestamp THEN Append(sorted, m)
    ELSE Append(InsertByTimestamp(SubSeq(sorted, 1, Len(sorted) - 1), m),
                sorted[Len(sorted)])

RECURSIVE SortByTimestamp(_)
SortByTimestamp(s) ==
    IF s = << >> THEN << >>
    ELSE InsertByTimestamp(SortByTimestamp(SubSeq(s, 1, Len(s) - 1)), s[Len(s)])

\* A bug MemVisible could have: the private filter forgets the owner.
MemVisibleAnyOwner(m, chatType, userId) ==
    /\ ~m.isTyping
    /\ IF chatType = "private" THEN m.chatType = "private"
       ELSE m.chatType = "general"

\* MemStorage.getMessages, lines 90-96: the two filters.  userId is
\* undefined when the caller gave none, and no stored null equals it.
MemVisible(m, chatType, userId) ==
    /\ ~m.isTyping
    /\ IF chatType = "private"
       THEN m.chatType = "private" /\ userId # None
            /\ m.privateChatUserId = userId
       ELSE m.chatType = "general"

\* MemStorage.getMessages, lines 88-104.
MemGetMessages(store, limit, chatType, userId) ==
    LET Keep(m) == MemVisible(m, chatType, userId) IN
    SliceFrom(SortByTimestamp(SelectSeq(store, Keep)), Negate(limit))

\* PostgresStorage.getMessages, lines 230-237: the WHERE conditions.
PgVisible(m, chatType, userId) ==
    /\ ~m.isTyping
    /\ IF chatType = "private" /\ userId # None
       THEN m.chatType = "private" /\ m.privateChatUserId = userId
       ELSE m.chatType = "general"

\* LIMIT takes no negative number and no NaN: the query fails.
PgRejects(limit) == limit.nan \/ limit.n < 0

\* ORDER BY timestamp DESC: every order of the rows with no later
\* timestamp after an earlier one; rows of equal timestamp come in any order.
DescOrders(rows) ==
    {p \in [1..Cardinality(rows) -> rows] :
        /\ \A i, j \in DOMAIN p : i # j => p[i] # p[j]
        /\ \A i, j \in DOMAIN p : i < j => p[i].timestamp >= p[j].timestamp}

Reverse(s) == [i \in DOMAIN s |-> s[Len(s) + 1 - i]]

\* PostgresStorage.getMessages, lines 203-258: the results the query can
\* give; none when the query fails.
PgGetMessages(store, limit, chatType, userId) ==
    IF PgRejects(limit) THEN {}
    ELSE LET rows == {store[i] : i \in {k \in DOMAIN store :
                                          PgVisible(store[k], chatType, userId)}}
         IN {Reverse(SubSeq(p, 1, IF limit.n < Len(p) THEN limit.n ELSE Len(p))) :
                p \in DescOrders(rows)}

\* No query made yet, or the store has changed since.
NoQuery == [asked |-> FALSE, limit |-> NaN, chatType |-> None, userId |-> None,
            mem |-> << >>, pg |-> {}]

(* ---------------------------- broadcaster ----------------------------- *)

\* A bug OpenClients could have: the walk over the map ends at the first
\* handle that is not OPEN, as if the send on it had thrown.
OpenClientsUntilClosed(cl, rs) ==
    {c \in DOMAIN cl :
        rs[c] = "OPEN" /\ \A d \in DOMAIN cl : d < c => rs[d] = "OPEN"}

\* handles a broadcast reaches: in the map and OPEN.
OpenClients(cl, rs) == {c \in DOMAIN cl : rs[c] = "OPEN"}

\* A bug Deliver could have: the event overtakes what was sent before.
DeliverFirst(box, event, to) ==
    [c \in DOMAIN box |-> IF c \in to THEN <<event>> \o box[c] ELSE box[c]]

\* ws.send on every handle of `to`: the event joins what each was sent.
Deliver(box, event, to) ==
    [c \in DOMAIN box |-> IF c \in to THEN Append(box[c], event) ELSE box[c]]

\* A bug broadcast could have: a message is not echoed to its author.
broadcastNoEcho(box, event, cl, rs) ==
    Deliver(box, event,
            {c \in OpenClients(cl, rs) :
                event.type = "message" => cl[c].userId # event.data.userId})

broadcast(box, event, cl, rs) == Deliver(box, event, OpenClients(cl, rs))

\* A bug broadcastToOthers could have: the sender is not left out.
broadcastToOthersEcho(box, sender, event, cl, rs) ==
    Deliver(box, event, OpenClients(cl, rs))

broadcastToOthers(box, sender, event, cl, rs) ==
    Deliver(box, event, OpenClients(cl, rs) \ {sender})

\* History entry of a broadcast made for request r, by its submit handler
\* or by its AI turn.
Sent(r, by, event) == [kind |-> "send", req |-> r, by |-> by, event |-> event]

\* Events, as tagged {type, data}.
MessageEvent(m, user) == [type |-> "message", data |-> m, user |-> user]

UpdateEvent(id, content, isComplete) ==
    [type |-> "message_update",
     data |-> [id |-> id, content |-> content, isComplete |-> isComplete]]

StatusEvent(u, v) ==
    [type |-> "user_status", data |-> [userId |-> u, isOnline |-> v]]

\* Other history entries: a store write and an HTTP response.
Persisted(r, id) == [kind |-> "persist", req |-> r, id |-> id]
Responded(r, status, body) ==
    [kind |-> "respond", req |-> r, status |-> status, body |-> body]
\* ... and the first step of an AI turn.
Started(r) == [kind |-> "turn", req |-> r]

(* ------------------------- POST /api/messages ------------------------- *)

\* A request body.  Booleans of the body are "true"/"false" or Absent.
Body(hasContent, userId, isAI, chatType, privateChatUserId, isAiActive) ==
    [hasContent |-> hasContent, content |-> UserText, userId |-> userId,
     isAI |-> isAI, isTyping |-> Absent, chatType |-> chatType,
     privateChatUserId |-> privateChatUserId, isAiActive |-> isAiActive]

\* Every combination of the fields the handler looks at.
AllBodies ==
    {Body(h, u, a, c, p, f) :
        h \in BOOLEAN, u \in {None, "u1"}, a \in {Absent, "false", "true"},
        c \in {Absent, "general", "private", "other"}, p \in {None, "u1"},
        f \in {Absent, "true", "false"}}

\* One body per path through the handler and the turn: a general message
\* with the AI on, with the AI off, without an author, a private message of
\* u1, and a body the schema rejects.
Bodies ==
    {Body(TRUE, "u1", Absent, "general", None, Absent),
     Body(TRUE, "u1", Absent, "general", None, "false"),
     Body(TRUE, None, "false", Absent, None, "true"),
     Body(TRUE, "u1", Absent, "private", "u1", Absent),
     Body(FALSE, "u1", Absent, "general", None, Absent)}

\* insertMessageSchema.parse: content is notNull, all else optional.
ParseOk(body) == body.hasContent

\* insertMessageSchema.parse strips the keys the schema does not know.
Parsed(body) ==
    [content |-> body.content, userId |-> body.userId, isAI |-> body.isAI,
     isTyping |-> body.isTyping, chatType |-> body.chatType,
     privateChatUserId |-> body.privateChatUserId]

\* A bug IsAiActive could have: a missing flag counts as off.
IsAiActiveWhenGiven(body) == body.isAiActive = "true"

\* req.body.isAiActive !== false
IsAiActive(body) == body.isAiActive # "false"

\* the shouldCallAI expression
shouldCallAI(body) ==
    LET chatType == OrElse(body.chatType, "general") IN
    /\ ~Truthy(body.isAI)
    /\ \/ chatType = "private"
       \/ chatType = "general" /\ IsAiActive(body)

IdleReq == [pc |-> "idle", body |-> NoObject, message |-> NoObject,
            status |-> 0, response |-> NoObject, scheduled |-> 0]
\* `result` is what callQwenAPI returned, a text; empty until it returns.
IdleTurn == [pc |-> "none", chatType |-> None, privateChatUserId |-> None,
             aiMessage |-> NoObject, fullResponse |-> <<>>, chunks |-> 0,
             created |-> 0, result |-> << >>]

\* The catch block of the handler: res.status(500).
Fail500(r) ==
    /\ req' = [req EXCEPT ![r].pc = "done", ![r].status = 500]
    /\ log' = Append(log, Responded(r, 500, NoObject))

\* A bug SubmitCreate could have: a failing createMessage is swallowed and
\* the handler goes on with the row it could not store.
SubmitCreateSwallows(r, body) ==
    /\ req[r].pc = "idle"
    /\ \E t \in Clock(now), stored \in BOOLEAN :
        IF ParseOk(body)
        THEN /\ messages' = IF stored
                             THEN createMessage(messages, Parsed(body), nextId + 1, t)
                             ELSE messages
             /\ nextId' = nextId + 1
             /\ now' = t
             /\ req' = [req EXCEPT ![r].pc = "created", ![r].body = body,
                                   ![r].message = NewMessage(Parsed(body), nextId + 1, t)]
             /\ log' = IF stored THEN Append(log, Persisted(r, nextId + 1)) ELSE log
        ELSE /\ req' = [req EXCEPT ![r].pc = "done", ![r].body = body,
                                   ![r].status = 500]
             /\ log' = Append(log, Responded(r, 500, NoObject))
             /\ UNCHANGED <<messages, nextId, now>>
    /\ UNCHANGED <<clients, readyState, closeSeen, isOnline, apiKey, hook, users, cache, turn,
                   inbox, statusBox, got, typing, skipped>>

\* Lines 121-124: parse the body, then storage.createMessage.
SubmitCreate(r, body) ==
    /\ req[r].pc = "idle"
    /\ \E t \in Clock(now), stored \in BOOLEAN :
        IF ParseOk(body) /\ stored
        THEN /\ messages' = createMessage(messages, Parsed(body), nextId + 1, t)
             /\ nextId' = nextId + 1
             /\ now' = t
             /\ req' = [req EXCEPT ![r].pc = "created", ![r].body = body,
                                   ![r].message = NewMessage(Parsed(body), nextId + 1, t)]
             /\ log' = Append(log, Persisted(r, nextId + 1))
        ELSE /\ req' = [req EXCEPT ![r].pc = "done", ![r].body = body,
                                   ![r].status = 500]
             /\ log' = Append(log, Responded(r, 500, NoObject))
             /\ UNCHANGED <<messages, nextId, now>>
    /\ UNCHANGED <<clients, readyState, closeSeen, isOnline, apiKey, hook, users, cache, turn,
                   inbox, statusBox, got, typing, skipped>>

\* A bug Echo could have: the event is built from another copy of the row.
EchoOfCopy(messageWithUser) ==
    MessageEvent([messageWithUser.message EXCEPT !.id = @ + 1],
                 messageWithUser.user)

\* Lines 132-135: the event that carries the stored message.
Echo(messageWithUser) ==
    MessageEvent(messageWithUser.message, messageWithUser.user)

\* A bug SubmitEffects could have: res.json before the broadcast.
SubmitEffectsRespondFirst(r, messageWithUser) ==
    <<Responded(r, 200, messageWithUser),
      Sent(r, "submit", Echo(messageWithUser))>>

\* Lines 131-138 in program order: broadcast, then res.json.
SubmitEffects(r, messageWithUser) ==
    <<Sent(r, "submit", Echo(messageWithUser)),
      Responded(r, 200, messageWithUser)>>

\* Lines 126-155: resolve the author, broadcast, respond, schedule the turn.
SubmitFinish(r) ==
    /\ req[r].pc = "created"
    /\ \E resolved \in BOOLEAN :
        LET message == req[r].message
            body == req[r].body
            messageWithUser ==
                [message |-> message,
                 user |-> IF message.userId # None THEN getUser(message.userId)
                          ELSE None]
        IN IF message.userId # None /\ ~resolved
           THEN /\ Fail500(r)
                /\ UNCHANGED <<turn, inbox>>
           ELSE /\ log' = log \o SubmitEffects(r, messageWithUser)
                /\ inbox' = broadcast(inbox, Echo(messageWithUser), clients,
                                      readyState)
                /\ req' = [req EXCEPT ![r].pc = "done", ![r].status = 200,
                                      ![r].response = messageWithUser,
                                      ![r].scheduled =
                                          IF shouldCallAI(body) THEN 1 ELSE 0]
                /\ turn' = IF shouldCallAI(body)
                           THEN [turn EXCEPT ![r].pc = "scheduled",
                                    ![r].chatType = OrElse(body.chatType, "general"),
                                    ![r].privateChatUserId =
                                        OrElse(body.privateChatUserId, None)]
                           ELSE turn
    /\ UNCHANGED <<clients, readyState, closeSeen, isOnline, messages,
                   nextId, now, apiKey, hook, users, cache, statusBox, got, typing, skipped>>

(* --------------------------- callQwenAPI ------------------------------ *)

\* The two strings callQwenAPI returns instead of a reply.
ConfigApology == <<"not configured">>
TechApology == <<"technical difficulties">>

\* A bug TurnCallback could have: a failed turn reaches the HTTP response.
TurnCallbackSurfaces(rq, r, result) ==
    IF result \in {ConfigApology, TechApology}
    THEN [rq EXCEPT ![r].status = 500]
    ELSE rq

\* Lines 148-154: the setImmediate callback awaits callQwenAPI and drops
\* what it returns; the request it came from is left as it is.
TurnCallback(rq, r, result) == rq

\* A bug TurnReturn could have: a turn that failed is run again.
TurnReturnRetries(r, result) ==
    /\ turn' = IF result \in {ConfigApology, TechApology}
               THEN [turn EXCEPT ![r].pc = "scheduled"]
               ELSE [turn EXCEPT ![r].pc = "returned", ![r].result = result]
    /\ req' = TurnCallback(req, r, result)

\* callQwenAPI returns `result`.
TurnReturn(r, result) ==
    /\ turn' = [turn EXCEPT ![r].pc = "returned", ![r].result = result]
    /\ req' = TurnCallback(req, r, result)

\* A bug Placeholder could have: the reply always goes to the general chat.
PlaceholderInGeneral(chatType, privateChatUserId) ==
    [content |-> <<>>, userId |-> None, isAI |-> "true", isTyping |-> "false",
     chatType |-> "general", privateChatUserId |-> privateChatUserId]

\* Lines 288-295: the placeholder insert.
Placeholder(chatType, privateChatUserId) ==
    [content |-> <<>>, userId |-> None, isAI |-> "true", isTyping |-> "false",
     chatType |-> OrElse(chatType, "general"),
     privateChatUserId |-> privateChatUserId]

\* A bug Accumulate could have: the delta replaces the text so far.
AccumulateOverwrite(fullResponse, content) == <<content>>

\* Line 345: fullResponse += content
Accumulate(fullResponse, content) == Append(fullResponse, content)

\* Lines 238-276: the callback runs; without a key it returns at once,
\* otherwise the request to the provider is sent.
TurnStart(r) ==
    /\ turn[r].pc = "scheduled"
    /\ IF ~apiKey
       THEN TurnReturn(r, ConfigApology)
       ELSE /\ turn' = [turn EXCEPT ![r].pc = "fetching"]
            /\ req' = req
    /\ log' = Append(log, Started(r))
    /\ UNCHANGED <<clients, readyState, closeSeen, isOnline, messages,
                   nextId, now, apiKey, hook, users, cache, inbox, statusBox, got, typing, skipped>>

\* Lines 252-295: fetch settles; on an OK response the placeholder is stored.
TurnFetched(r) ==
    /\ turn[r].pc = "fetching"
    /\ \E outcome \in {"ok", "not ok", "throws"}, t \in Clock(now),
          stored \in BOOLEAN :
        IF outcome = "ok" /\ stored
        THEN LET ins == Placeholder(turn[r].chatType, turn[r].privateChatUserId)
             IN /\ messages' = createMessage(messages, ins, nextId + 1, t)
                /\ nextId' = nextId + 1
                /\ now' = t
                /\ turn' = [turn EXCEPT ![r].pc = "placeholder",
                               ![r].aiMessage = NewMessage(ins, nextId + 1, t),
                               ![r].created = @ + 1]
                /\ log' = Append(log, Persisted(r, nextId + 1))
                /\ req' = req
        ELSE /\ TurnReturn(r, TechApology)
             /\ UNCHANGED <<messages, nextId, now, log>>
    /\ UNCHANGED <<clients, readyState, closeSeen, isOnline, apiKey, hook, users, cache,
                   inbox, statusBox, got, typing, skipped>>

\* Lines 297-317: broadcast the placeholder, then look at response.body.
TurnPlaceholder(r) ==
    /\ turn[r].pc = "placeholder"
    /\ log' = Append(log, Sent(r, "turn", MessageEvent(turn[r].aiMessage, None)))
    /\ inbox' = broadcast(inbox, MessageEvent(turn[r].aiMessage, None), clients,
                          readyState)
    /\ \E hasBody \in BOOLEAN :
        IF hasBody
        THEN /\ turn' = [turn EXCEPT ![r].pc = "streaming"]
             /\ req' = req
        ELSE TurnReturn(r, TechApology)
    /\ UNCHANGED <<clients, readyState, closeSeen, isOnline, messages,
                   nextId, now, apiKey, hook, users, cache, statusBox, got, typing, skipped>>

\* Lines 370-381: the final broadcast.
TurnFinal(r) ==
    UpdateEvent(turn[r].aiMessage.id, turn[r].fullResponse, TRUE)

\* Lines 320-348 and 366-386: reader.read() settles.  A read ends the
\* stream, throws, or yields a line; a line with content grows fullResponse
\* and calls storage.updateMessage, whose failure the inner catch swallows.
TurnRead(r) ==
    /\ turn[r].pc = "streaming"
    /\ \/ /\ log' = Append(log, Sent(r, "turn", TurnFinal(r)))
          /\ inbox' = broadcast(inbox, TurnFinal(r), clients, readyState)
          /\ TurnReturn(r, turn[r].fullResponse)
          /\ UNCHANGED messages
       \/ /\ TurnReturn(r, TechApology)
          /\ UNCHANGED <<messages, log, inbox>>
       \/ /\ turn[r].chunks < MaxChunks
          /\ \E content \in Deltas \cup {""}, stored \in BOOLEAN :
              LET full == Accumulate(turn[r].fullResponse, content) IN
              IF content = ""
              THEN /\ turn' = [turn EXCEPT ![r].chunks = @ + 1]
                   /\ UNCHANGED <<messages, log, inbox>>
              ELSE IF stored
              THEN /\ messages' = updateMessage(messages, turn[r].aiMessage.id, full)
                   /\ log' = Append(log, Persisted(r, turn[r].aiMessage.id))
                   /\ turn' = [turn EXCEPT ![r].chunks = @ + 1,
                                  ![r].fullResponse = full, ![r].pc = "updating"]
                   /\ inbox' = inbox
              ELSE /\ turn' = [turn EXCEPT ![r].chunks = @ + 1,
                                  ![r].fullResponse = full]
                   /\ UNCHANGED <<messages, log, inbox>>
          /\ req' = req
    /\ UNCHANGED <<clients, readyState, closeSeen, isOnline, nextId, now,
                   apiKey, hook, users, cache, statusBox, got, typing, skipped>>

\* A bug TurnDelta could have: the event carries the last delta only.
TurnDeltaOnly(r) ==
    UpdateEvent(turn[r].aiMessage.id,
                SubSeq(turn[r].fullResponse, Len(turn[r].fullResponse),
                       Len(turn[r].fullResponse)),
                FALSE)

\* Lines 351-358: the event of one streamed update.
TurnDelta(r) ==
    UpdateEvent(turn[r].aiMessage.id, turn[r].fullResponse, FALSE)

\* Lines 350-359: the update is stored; broadcast it.
TurnUpdated(r) ==
    /\ turn[r].pc = "updating"
    /\ log' = Append(log, Sent(r, "turn", TurnDelta(r)))
    /\ inbox' = broadcast(inbox, TurnDelta(r), clients, readyState)
    /\ turn' = [turn EXCEPT ![r].pc = "streaming"]
    /\ UNCHANGED <<clients, readyState, closeSeen, isOnline, messages,
                   nextId, now, apiKey, hook, users, cache, req, statusBox, got, typing, skipped>>

(* ------------------------- WebSocket handling ------------------------- *)

\* Lines 163-164: a client connects.  Handles are taken in order.
Connect(c) ==
    /\ readyState[c] = "CONNECTING"
    /\ \A d \in Conns : d < c => readyState[d] # "CONNECTING"
    /\ clients' = [d \in DOMAIN clients \cup {c} |->
                      IF d = c THEN [userId |-> None] ELSE clients[d]]
    /\ readyState' = [readyState EXCEPT ![c] = "OPEN"]
    /\ UNCHANGED <<closeSeen, isOnline, messages, nextId, now, apiKey, hook, users, cache,
                   req, turn, log, inbox, statusBox, got, typing, skipped>>

\* Lines 172-183: an 'auth' frame; the client sends one, when its socket
\* opens.  A failing status write is caught by the handler's try block, after
\* the identity is already attached.
Auth(c) ==
    /\ c \in DOMAIN clients
    /\ readyState[c] = "OPEN"
    /\ clients[c].userId = None
    /\ \E u \in Users, stored \in BOOLEAN :
        LET cl == [clients EXCEPT ![c].userId = u] IN
        /\ clients' = cl
        /\ IF stored
           THEN /\ isOnline' = updateUserOnlineStatus(isOnline, u, TRUE)
                /\ statusBox' = broadcast(statusBox, StatusEvent(u, TRUE), cl,
                                          readyState)
           ELSE UNCHANGED <<isOnline, statusBox>>
    /\ UNCHANGED <<readyState, closeSeen, messages, nextId, now, apiKey, hook, users, cache, req,
                   turn, log, inbox, got, typing, skipped>>

\* Lines 172-183 again: an 'auth' frame on a handle that has an identity,
\* naming another user.  useWebSocket sends no such frame; the server takes
\* it from any client.  The old user's status is not touched.
AuthAgain(c) ==
    /\ c \in DOMAIN clients
    /\ readyState[c] = "OPEN"
    /\ clients[c].userId # None
    /\ Len(statusBox[c]) < MaxStatus
    /\ \E u \in Users \ {clients[c].userId}, stored \in BOOLEAN :
        LET cl == [clients EXCEPT ![c].userId = u] IN
        /\ clients' = cl
        /\ IF stored
           THEN /\ isOnline' = updateUserOnlineStatus(isOnline, u, TRUE)
                /\ statusBox' = broadcast(statusBox, StatusEvent(u, TRUE), cl,
                                          readyState)
           ELSE UNCHANGED <<isOnline, statusBox>>
    /\ UNCHANGED <<readyState, closeSeen, messages, nextId, now, apiKey, hook, users,
                   cache, req, turn, log, inbox, got, typing, skipped>>

\* A bug CloseSocket could have: a closing handle aborts the AI turns.
CloseSocketAborts(c) ==
    /\ readyState[c] = "OPEN"
    /\ readyState' = [readyState EXCEPT ![c] = "CLOSED"]
    /\ inbox' = [inbox EXCEPT ![c] = << >>]
    /\ statusBox' = [statusBox EXCEPT ![c] = << >>]
    /\ turn' = [r \in Reqs |->
                  IF turn[r].pc \in {"none", "returned"} THEN turn[r]
                  ELSE [turn[r] EXCEPT !.pc = "returned", !.result = TechApology]]
    /\ UNCHANGED <<clients, closeSeen, isOnline, messages, nextId, now,
                   apiKey, hook, users, cache, req, log, got, typing>>

\* The socket leaves the OPEN state; the 'close' event is yet to be handled.
\* What was sent on the handle goes away with the socket.
CloseSocket(c) ==
    /\ readyState[c] = "OPEN"
    /\ readyState' = [readyState EXCEPT ![c] = "CLOSED"]
    /\ inbox' = [inbox EXCEPT ![c] = << >>]
    /\ statusBox' = [statusBox EXCEPT ![c] = << >>]
    /\ UNCHANGED <<clients, closeSeen, isOnline, messages, nextId, now,
                   apiKey, hook, users, cache, req, turn, log, got, typing>>

Close(c) == CloseSocket(c) /\ UNCHANGED skipped

\* What is in flight: a submit handler between its store write and its
\* broadcast, an AI turn between its scheduling and its return.
InFlight ==
    {<<"submit", req[r].pc>> : r \in {q \in Reqs : req[q].pc = "created"}}
        \cup {<<"turn", turn[r].pc>> : r \in {q \in Reqs :
                                        turn[q].pc \notin {"none", "returned"}}}

\* The same step, remembering under what the handle closed.
CloseObserved(c) ==
    /\ CloseSocket(c)
    /\ skipped' = skipped \cup {<<c, f[1], f[2]>> : f \in InFlight}

\* Lines 206-218: the 'close' handler.  Nothing catches a failing status
\* write: the handler ends there, before clients.delete.
CloseHandler(c) ==
    /\ readyState[c] = "CLOSED"
    /\ c \notin closeSeen
    /\ closeSeen' = closeSeen \cup {c}
    /\ \E stored \in BOOLEAN :
        LET u == clients[c].userId IN
        IF u = None
        THEN /\ clients' = [d \in DOMAIN clients \ {c} |-> clients[d]]
             /\ UNCHANGED <<isOnline, statusBox>>
        ELSE IF stored
        THEN /\ isOnline' = updateUserOnlineStatus(isOnline, u, FALSE)
             /\ statusBox' = broadcast(statusBox, StatusEvent(u, FALSE), clients,
                                       readyState)
             /\ clients' = [d \in DOMAIN clients \ {c} |-> clients[d]]
        ELSE UNCHANGED <<clients, isOnline, statusBox>>
    /\ UNCHANGED <<readyState, messages, nextId, now, apiKey, hook, users, cache, req, turn,
                   log, inbox, got, typing, skipped>>

(* --------------------------- typing frames ---------------------------- *)

\* A bug DeleteTyping could have: nothing is removed.
DeleteTypingNone(store, userId) == store

\* updateMessageTyping, first half: remove the typing rows of the user.
DeleteTyping(store, userId) ==
    LET Kept(m) == ~(m.userId = userId /\ m.isTyping) IN SelectSeq(store, Kept)

\* updateMessageTyping, second half: the row it adds when isTyping is true.
TypingRow(userId, id, t) ==
    Message(id, << >>, userId, FALSE, t, TRUE, "general", None)

\* The 'typing' event.
TypingEvent(u, v, user) ==
    [type |-> "typing", data |-> [userId |-> u, isTyping |-> v, user |-> user]]

\* History entries of the n-th 'typing' frame of handle c.
TypingDeleted(c, n, u) ==
    [kind |-> "typing-delete", conn |-> c, n |-> n, userId |-> u]
TypingInserted(c, n, u) ==
    [kind |-> "typing-insert", conn |-> c, n |-> n, userId |-> u]
TypingSent(c, n, event) ==
    [kind |-> "typing-send", conn |-> c, n |-> n, event |-> event]

\* The client before it has sent or handled anything.
IdleCache == [list |-> << >>, handled |-> 0, sent |-> "no"]

IdleTyping == [pc |-> "idle", userId |-> None, isTyping |-> FALSE, frames |-> 0]

\* 'typing' frames received so far on the handles of S.
RECURSIVE FramesOf(_)
FramesOf(S) ==
    IF S = {} THEN 0
    ELSE LET c == CHOOSE x \in S : TRUE IN typing[c].frames + FramesOf(S \ {c})

\* Lines 185-187: a 'typing' frame arrives.  Without an identity on the
\* handle nothing happens; with one, updateMessageTyping starts by removing
\* the user's typing rows.  A failing storage call ends the handler in its
\* catch block.
TypingFrame(c, v) ==
    /\ c \in DOMAIN clients
    /\ readyState[c] = "OPEN"
    /\ typing[c].pc = "idle"
    /\ FramesOf(Conns) < MaxFrames
    /\ LET u == clients[c].userId
           n == typing[c].frames + 1
       IN \E stored \in BOOLEAN :
           IF u = None \/ ~stored
           THEN /\ typing' = [typing EXCEPT ![c].frames = n]
                /\ UNCHANGED <<messages, log>>
           ELSE /\ messages' = DeleteTyping(messages, u)
                /\ log' = Append(log, TypingDeleted(c, n, u))
                /\ typing' = [typing EXCEPT ![c] =
                                 [pc |-> IF v THEN "inserting" ELSE "resolving",
                                  userId |-> u, isTyping |-> v, frames |-> n]]
    /\ UNCHANGED <<clients, readyState, closeSeen, isOnline, nextId, now,
                   apiKey, hook, users, cache, req, turn, inbox, statusBox, got, skipped>>

\* updateMessageTyping, `if (isTyping)`: the fresh typing row is stored.
TypingInsert(c) ==
    /\ typing[c].pc = "inserting"
    /\ \E t \in Clock(now), stored \in BOOLEAN :
        IF stored
        THEN /\ messages' = Append(messages,
                                   TypingRow(typing[c].userId, nextId + 1, t))
             /\ nextId' = nextId + 1
             /\ now' = t
             /\ log' = Append(log, TypingInserted(c, typing[c].frames,
                                                  typing[c].userId))
             /\ typing' = [typing EXCEPT ![c].pc = "resolving"]
        ELSE /\ typing' = [typing EXCEPT ![c].pc = "idle"]
             /\ UNCHANGED <<messages, nextId, now, log>>
    /\ UNCHANGED <<clients, readyState, closeSeen, isOnline, apiKey, hook, users, cache, req,
                   turn, inbox, statusBox, got, skipped>>

\* Lines 189-197: storage.getUser settles and the event goes to the others.
TypingBroadcast(c) ==
    /\ typing[c].pc = "resolving"
    /\ \E resolved \in BOOLEAN :
        LET event == TypingEvent(typing[c].userId, typing[c].isTyping,
                                 getUser(typing[c].userId))
        IN IF resolved
           THEN /\ inbox' = broadcastToOthers(inbox, c, event, clients,
                                              readyState)
                /\ log' = Append(log, TypingSent(c, typing[c].frames, event))
           ELSE UNCHANGED <<inbox, log>>
    /\ typing' = [typing EXCEPT ![c].pc = "idle"]
    /\ UNCHANGED <<clients, readyState, closeSeen, isOnline, messages, nextId,
                   now, apiKey, hook, users, cache, req, turn, statusBox, got, skipped>>

\* A bug ClearAll could have: the typing rows are left in the store.
ClearAllKeepsTyping ==
    /\ messages # << >> \/ DOMAIN isOnline # {}
    /\ \E stored \in BOOLEAN :
        /\ messages' = SelectSeq(messages, LAMBDA m : m.isTyping)
        /\ isOnline' = IF stored THEN [u \in {} |-> FALSE] ELSE isOnline
        /\ users' = IF stored THEN [u \in {} |-> u] ELSE users
    /\ got' = NoQuery
    /\ UNCHANGED <<clients, readyState, closeSeen, nextId, now, apiKey, hook, cache,
                   req, turn, log, inbox, statusBox, typing, skipped>>

\* DELETE /api/clear: storage.clearAll removes the messages, then the users;
\* the second delete can fail after the first was done.
ClearAll ==
    /\ messages # << >> \/ DOMAIN isOnline # {}
    /\ \E stored \in BOOLEAN :
        /\ messages' = << >>
        /\ isOnline' = IF stored THEN [u \in {} |-> FALSE] ELSE isOnline
        /\ users' = IF stored THEN [u \in {} |-> u] ELSE users
    /\ got' = NoQuery
    /\ UNCHANGED <<clients, readyState, closeSeen, nextId, now, apiKey, hook, cache,
                   req, turn, log, inbox, statusBox, typing, skipped>>

\* storage.getAllUsers: the ids of the rows of the users table.
getAllUsers(tbl) == DOMAIN tbl

(* --------------------------- POST /api/users -------------------------- *)

\* Ids randomUUID hands to new users, in order, and usernames of the bodies.
NewUserIds == <<"u3", "u4">>
Usernames == {"u1", "ann"}

\* getUserByUsername
getUserByUsername(tbl, username) == {i \in DOMAIN tbl : tbl[i] = username}

\* MemStorage.createUser: the row is put under a fresh id; the username is
\* not looked at.
MemCreateUser(tbl, username, id) ==
    [i \in DOMAIN tbl \cup {id} |-> IF i = id THEN username ELSE tbl[i]]

\* PostgresStorage.createUser: the insert fails on the unique constraint of
\* users.username.
PgCreateUserFails(tbl, username) == getUserByUsername(tbl, username) # {}

\* POST /api/users with a body the schema accepts, on either backend.  A
\* failing insert is answered 500 and changes nothing.
CreateUser(username) ==
    LET made == {k \in DOMAIN NewUserIds : NewUserIds[k] \in DOMAIN users}
        k == Cardinality(made) + 1
    IN /\ k \in DOMAIN NewUserIds
       /\ \E backend \in {"mem", "pg"}, stored \in BOOLEAN :
            IF stored /\ ~(backend = "pg" /\ PgCreateUserFails(users, username))
            THEN /\ users' = MemCreateUser(users, username, NewUserIds[k])
                 /\ isOnline' = [i \in DOMAIN isOnline \cup {NewUserIds[k]} |->
                                    IF i = NewUserIds[k] THEN FALSE ELSE isOnline[i]]
            ELSE UNCHANGED <<users, isOnline>>
       /\ UNCHANGED <<clients, readyState, closeSeen, messages, nextId, now,
                      apiKey, hook, cache, req, turn, log, inbox, statusBox, got,
                      typing, skipped>>

(* ------------------------ the client, useChat ------------------------- *)

\* The client modelled is the one of handle 1, showing the general chat; it
\* sends request 1.
ClientConn == 1
ClientReq == 1

\* `temp-${Date.now()}`: an id no stored message has.
TempId == 0 - 1

\* What sendMessageMutation posts: isAI and isTyping false, the general chat.
ClientBody ==
    [Body(TRUE, "u1", "false", "general", None, "true") EXCEPT !.isTyping = "false"]

\* onMutate: the optimistic entry.
Optimistic(body) ==
    Message(TempId, body.content, body.userId, FALSE, 0, FALSE,
            OrElse(body.chatType, "general"), OrElse(body.privateChatUserId, None))

\* handleMessage, type "message": append unless an entry has the id.
MergeById(list, m) ==
    IF \E i \in DOMAIN list : list[i].id = m.id THEN list ELSE Append(list, m)

\* handleMessage, type "message_update": overwrite the content of the entry.
ApplyUpdate(list, u) ==
    [i \in DOMAIN list |->
        IF list[i].id = u.id THEN [list[i] EXCEPT !.content = u.content]
        ELSE list[i]]

\* onSuccess: the optimistic entry is replaced by the response.
ReplaceOptimistic(list, m) ==
    [i \in DOMAIN list |-> IF list[i].id = TempId THEN m ELSE list[i]]

\* onError: the optimistic entry is dropped.
DropOptimistic(list) == SelectSeq(list, LAMBDA m : m.id # TempId)

\* handleMessage applied to one event of the chat.
Handle(list, e) ==
    IF e.type = "message" THEN MergeById(list, e.data)
    ELSE ApplyUpdate(list, e.data)

clientFrame == <<clients, readyState, closeSeen, isOnline, messages, nextId,
                 now, apiKey, hook, users, req, turn, log, inbox, statusBox, got,
                 typing, skipped>>

\* sendMessage: onMutate puts the optimistic entry in the cache; the POST
\* is on its way.
ClientMutate ==
    /\ cache.sent = "no"
    /\ cache' = [cache EXCEPT !.list = Append(@, Optimistic(ClientBody)),
                              !.sent = "pending"]
    /\ UNCHANGED clientFrame

\* The socket's 'message' listener takes the next event of the handle.
ClientHandle ==
    /\ readyState[ClientConn] = "OPEN"
    /\ cache.handled < Len(inbox[ClientConn])
    /\ cache' = [cache EXCEPT
                    !.list = Handle(@, inbox[ClientConn][cache.handled + 1]),
                    !.handled = @ + 1]
    /\ UNCHANGED clientFrame

\* An event the client has handled is delivered to it once more.
ClientReplay ==
    /\ readyState[ClientConn] = "OPEN"
    /\ \E k \in 1..cache.handled :
          /\ Handle(cache.list, inbox[ClientConn][k]) # cache.list
          /\ cache' = [cache EXCEPT !.list = Handle(@, inbox[ClientConn][k])]
    /\ UNCHANGED clientFrame

\* The HTTP response arrives: onSuccess or onError.
ClientSettle ==
    /\ cache.sent = "pending"
    /\ req[ClientReq].pc = "done"
    /\ cache' = IF req[ClientReq].status = 200
                THEN [cache EXCEPT
                        !.list = ReplaceOptimistic(@, req[ClientReq].response.message),
                        !.sent = "ok"]
                ELSE [cache EXCEPT !.list = DropOptimistic(@), !.sent = "failed"]
    /\ UNCHANGED clientFrame

(* --------------------- the client, useWebSocket ----------------------- *)

\* Sockets one hook makes, in all.
MaxSockets == 8
\* Renders of the hook that change its userId, the first one included.
MaxRenders == 2

\* Line 8.
maxReconnectAttempts == 5

\* Math.pow(2, n)
RECURSIVE Pow2(_)
Pow2(n) == IF n = 0 THEN 1 ELSE 2 * Pow2(n - 1)

\* The hook before its first effect: the state and the refs of lines 4-7.
\* `sockets` are the WebSockets made so far, each with the userId of the
\* effect whose connect made it; `timers` are the setTimeout calls so far;
\* `delays` is history, the delays asked of setTimeout since a socket last
\* opened.
IdleHook ==
    [userId |-> None, mounted |-> TRUE, renders |-> 0, isConnected |-> FALSE,
     wsRef |-> 0, reconnectTimeoutRef |-> 0, reconnectAttempts |-> 0,
     sockets |-> << >>, timers |-> << >>, delays |-> << >>]

\* A socket that has closed, and a timer that has fired or was cleared:
\* nothing of them is looked at again.
ClosedSocket == [userId |-> None, readyState |-> "CLOSED", sent |-> << >>]
SpentTimer == [userId |-> None, delay |-> 0, state |-> "spent"]

\* The 'auth' frame of lines 26-29.
AuthFrame(userId) == [type |-> "auth", userId |-> userId]

\* Lines 13-19: connect() of the effect run for userId makes a socket and
\* puts it in wsRef.  The URL is built from window.location, so the
\* constructor does not throw.
connect(h, userId) ==
    [h EXCEPT !.sockets = Append(@, [userId |-> userId, readyState |-> "CONNECTING",
                                     sent |-> << >>]),
              !.wsRef = Len(h.sockets) + 1]

\* Lines 56-63: the cleanup of an effect.  clearTimeout on the timer the ref
\* names, close() on the socket the ref names; close() starts the closing
\* handshake and the 'close' event comes later.
cleanup(h) ==
    [h EXCEPT
        !.timers = [k \in DOMAIN h.timers |->
                       IF k = h.reconnectTimeoutRef /\ h.timers[k].state = "pending"
                       THEN SpentTimer
                       ELSE h.timers[k]],
        !.sockets = [i \in DOMAIN h.sockets |->
                        IF i = h.wsRef
                           /\ h.sockets[i].readyState \in {"CONNECTING", "OPEN"}
                        THEN [h.sockets[i] EXCEPT !.readyState = "CLOSING"]
                        ELSE h.sockets[i]]]

\* Lines 10-11 and 54: the effect run for userId.
effect(h, userId) == IF userId = None THEN h ELSE connect(h, userId)

\* The variables of the server and of useChat.
hookFrame == <<clients, readyState, closeSeen, isOnline, messages, nextId, now,
               apiKey, users, cache, req, turn, log, inbox, statusBox, got,
               typing, skipped>>

\* A render with another userId: React runs the cleanup of the last effect
\* (one that returned at line 11 has none), then the effect.
Render(userId) ==
    /\ hook.mounted
    /\ userId # hook.userId
    /\ Len(hook.sockets) < MaxSockets
    /\ hook.renders < MaxRenders
    /\ hook' = [effect(IF hook.userId = None THEN hook ELSE cleanup(hook), userId)
                   EXCEPT !.userId = userId, !.renders = @ + 1]
    /\ UNCHANGED hookFrame

\* The component goes away: the cleanup runs.
Unmount ==
    /\ hook.mounted
    /\ hook' = [(IF hook.userId = None THEN hook ELSE cleanup(hook))
                   EXCEPT !.mounted = FALSE, !.userId = None]
    /\ UNCHANGED hookFrame

\* Lines 21-30: ws.onopen of socket i.
onopen(i) ==
    /\ hook.sockets[i].readyState = "CONNECTING"
    /\ hook' = [hook EXCEPT
                   !.isConnected = TRUE,
                   !.reconnectAttempts = 0,
                   !.delays = << >>,
                   !.sockets[i].readyState = "OPEN",
                   !.sockets[i].sent = Append(@, AuthFrame(hook.sockets[i].userId))]
    /\ UNCHANGED hookFrame

\* Lines 32-43: ws.onclose of socket i, which failed to connect, was closed
\* by the server or the network, or was closed by close().
onclose(i) ==
    /\ hook.sockets[i].readyState # "CLOSED"
    /\ LET closed == [hook EXCEPT !.isConnected = FALSE,
                                  !.sockets[i] = ClosedSocket]
           delay == Pow2(hook.reconnectAttempts) * 1000
       IN hook' = IF hook.reconnectAttempts < maxReconnectAttempts
                  THEN [closed EXCEPT
                           !.timers = Append(@, [userId |-> hook.sockets[i].userId,
                                                 delay |-> delay,
                                                 state |-> "pending"]),
                           !.reconnectTimeoutRef = Len(hook.timers) + 1,
                           !.delays = Append(@, delay)]
                  ELSE closed
    /\ UNCHANGED hookFrame

\* Lines 38-41: the callback of timer k.
TimerFires(k) ==
    /\ hook.timers[k].state = "pending"
    /\ Len(hook.sockets) < MaxSockets
    /\ hook' = connect([hook EXCEPT !.timers[k] = SpentTimer,
                                    !.reconnectAttempts = @ + 1],
                       hook.timers[k].userId)
    /\ UNCHANGED hookFrame

(* --------------------------- specification ---------------------------- *)

Init ==
    /\ clients = << >>
    /\ readyState = [c \in Conns |-> "CONNECTING"]
    /\ closeSeen = {}
    /\ isOnline = [u \in Users |-> FALSE]
    /\ messages = << >>
    /\ nextId = 0
    /\ now = 0
    /\ apiKey \in BOOLEAN
    /\ req = [r \in Reqs |-> IdleReq]
    /\ turn = [r \in Reqs |-> IdleTurn]
    /\ log = << >>
    /\ inbox = [c \in Conns |-> << >>]
    /\ statusBox = [c \in Conns |-> << >>]
    /\ got = NoQuery
    /\ typing = [c \in Conns |-> IdleTyping]
    /\ skipped = {}
    /\ users = [u \in Users |-> u]
    /\ cache = IdleCache
    /\ hook = IdleHook

Next ==
    \/ \E r \in Solo, body \in Bodies : SubmitCreate(r, body)
    \/ \E r \in Solo : SubmitFinish(r)
    \/ \E r \in Solo : TurnStart(r)
    \/ \E r \in Solo : TurnFetched(r)
    \/ \E r \in Solo : TurnPlaceholder(r)
    \/ \E r \in Solo : TurnRead(r)
    \/ \E r \in Solo : TurnUpdated(r)
    \/ \E c \in Conns : Connect(c)
    \/ \E c \in Conns : Auth(c)
    \/ \E c \in Conns : Close(c)
    \/ \E c \in Conns : CloseHandler(c)

Spec == Init /\ [][Next]_vars

\* The submit path and the AI turn alone, over every request body.
NextSubmit ==
    \/ \E r \in Solo, body \in AllBodies : SubmitCreate(r, body)
    \/ \E r \in Solo : SubmitFinish(r)
    \/ \E r \in Solo : TurnStart(r)
    \/ \E r \in Solo : TurnFetched(r)
    \/ \E r \in Solo : TurnPlaceholder(r)
    \/ \E r \in Solo : TurnRead(r)
    \/ \E r \in Solo : TurnUpdated(r)

SpecSubmit == Init /\ [][NextSubmit]_vars

\* The same, with every step of a turn taken once it can be: the
\* setImmediate callback runs, and fetch, the storage calls and reader.read
\* settle.  Every step of a turn moves its position or its count of reads.
TurnFairness ==
    \A r \in Solo :
        /\ WF_<<turn[r].pc, turn[r].chunks>>(TurnStart(r))
        /\ WF_<<turn[r].pc, turn[r].chunks>>(TurnFetched(r))
        /\ WF_<<turn[r].pc, turn[r].chunks>>(TurnPlaceholder(r))
        /\ WF_<<turn[r].pc, turn[r].chunks>>(TurnRead(r))
        /\ WF_<<turn[r].pc, turn[r].chunks>>(TurnUpdated(r))

SpecSubmitFair == Init /\ [][NextSubmit]_vars /\ TurnFairness

\* A submission with its AI turn and a second submission, concurrent, before
\* handles that open and close.
OrderBodies ==
    [r \in Reqs |-> Body(TRUE, "u1", Absent, "general", None,
                         IF r \in Solo THEN Absent ELSE "false")]
OrderBody(r) == OrderBodies[r]

NextOrder ==
    \/ \E r \in Reqs : SubmitCreate(r, OrderBody(r))
    \/ \E r \in Reqs : SubmitFinish(r)
    \/ \E r \in Reqs : TurnStart(r)
    \/ \E r \in Reqs : TurnFetched(r)
    \/ \E r \in Reqs : TurnPlaceholder(r)
    \/ \E r \in Reqs : TurnRead(r)
    \/ \E r \in Reqs : TurnUpdated(r)
    \/ \E c \in Conns : Connect(c)
    \/ \E c \in Conns : Close(c)

SpecOrder == Init /\ [][NextOrder]_vars

\* A body that asks for a typing row.
TypingBody ==
    [Body(TRUE, "u1", Absent, "general", None, "false") EXCEPT !.isTyping = "true"]

\* Submissions next to the typing frames: none starts an AI turn.
TypingBodies == {TypingBody}

\* Two submissions of u1, each with its AI turn, concurrent; no handle is
\* connected, and the provider's stream of the second turn carries no text.
TurnsBody == Body(TRUE, "u1", Absent, "general", None, Absent)

NextTurns ==
    \/ \E r \in Reqs : SubmitCreate(r, TurnsBody)
    \/ \E r \in Reqs : SubmitFinish(r)
    \/ \E r \in Reqs : TurnStart(r)
    \/ \E r \in Reqs : TurnFetched(r)
    \/ \E r \in Reqs : TurnPlaceholder(r)
    \/ \E r \in Reqs : TurnRead(r) /\ (r \in Solo \/ turn'[r].chunks = turn[r].chunks)
    \/ \E r \in Solo : TurnUpdated(r)

SpecTurns == Init /\ [][NextTurns]_vars

\* A submission and its AI turn before handles that close under them.
NextClose ==
    \/ \E r \in Solo : SubmitCreate(r, OrderBody(r))
    \/ \E r \in Solo : SubmitFinish(r)
    \/ \E r \in Solo : TurnStart(r)
    \/ \E r \in Solo : TurnFetched(r)
    \/ \E r \in Solo : TurnPlaceholder(r)
    \/ \E r \in Solo : TurnRead(r)
    \/ \E r \in Solo : TurnUpdated(r)
    \/ \E c \in Conns : Connect(c)
    \/ \E c \in Conns : CloseObserved(c)
    \/ \E c \in Conns : CloseHandler(c)

SpecClose == Init /\ [][NextClose]_vars

\* Typing frames on handles that come and go.
NextTyping ==
    \/ \E c \in Conns : Connect(c)
    \/ \E c \in Conns : Auth(c)
    \/ \E c \in Conns : Close(c)
    \/ \E c \in Conns : CloseHandler(c)
    \/ \E c \in Conns, v \in BOOLEAN : TypingFrame(c, v)
    \/ \E c \in Conns : TypingInsert(c)
    \/ \E c \in Conns : TypingBroadcast(c)

SpecTyping == Init /\ [][NextTyping]_vars

\* Everything that writes typing rows: the typing frames of a handle,
\* submissions, resets.
NextRecords ==
    \/ \E c \in Solo : Connect(c)
    \/ \E c \in Solo : Auth(c)
    \/ \E c \in Solo, v \in BOOLEAN : TypingFrame(c, v)
    \/ \E c \in Solo : TypingInsert(c)
    \/ \E c \in Solo : TypingBroadcast(c)
    \/ \E r \in Solo, body \in TypingBodies : SubmitCreate(r, body)
    \/ \E r \in Solo : SubmitFinish(r)
    \/ ClearAll

SpecRecords == Init /\ [][NextRecords]_vars

(* ----------------------- the store on its own ------------------------- *)

\* Equal timestamps happen: two inserts within one tick of the clock.
ClockWithTies(last) == {last, last + 1}

\* An insert of user u1.
Insert(isTyping, chatType, privateChatUserId) ==
    [content |-> UserText, userId |-> "u1", isAI |-> Absent,
     isTyping |-> isTyping, chatType |-> chatType,
     privateChatUserId |-> privateChatUserId]

\* Inserts the store is given: general and private rows, typing or not.
StoreInserts ==
    {Insert(Absent, Absent, None), Insert("true", "general", None),
     Insert(Absent, "private", "u1"), Insert("true", "private", "u1"),
     Insert(Absent, "private", "u2")}

\* Query strings of GET /api/messages.
Queries ==
    [limit : {Absent, "0", "1", "2", "-1", "abc"},
     chatType : {Absent, "general", "private"},
     userId : {Absent, "u1", "u2"}]

server == <<clients, readyState, closeSeen, isOnline, apiKey, hook, req, turn,
            log, inbox, statusBox, typing, skipped, users, cache>>

\* storage.createMessage on its own.
StoreCreate(ins) ==
    /\ Len(messages) < MaxRows
    /\ \E t \in ClockWithTies(now) :
        /\ messages' = createMessage(messages, ins, nextId + 1, t)
        /\ now' = t
    /\ nextId' = nextId + 1
    /\ got' = NoQuery
    /\ UNCHANGED server

\* Lines 107-117: GET /api/messages, answered by either backend.
GetMessages(q) ==
    /\ got' = [asked |-> TRUE, limit |-> QueryLimit(q),
               chatType |-> QueryChatType(q), userId |-> QueryUserId(q),
               mem |-> MemGetMessages(messages, QueryLimit(q), QueryChatType(q),
                                      QueryUserId(q)),
               pg |-> PgGetMessages(messages, QueryLimit(q), QueryChatType(q),
                                    QueryUserId(q))]
    /\ UNCHANGED <<messages, nextId, now>>
    /\ UNCHANGED server

NextStore ==
    \/ \E ins \in StoreInserts : StoreCreate(ins)
    \/ \E q \in Queries : GetMessages(q)

SpecStore == Init /\ [][NextStore]_vars

\* The client of handle 1 sends a message; the server handles it and runs
\* the AI turn.
NextClient ==
    \/ Connect(ClientConn)
    \/ ClientMutate
    \/ cache.sent = "pending" /\ SubmitCreate(ClientReq, ClientBody)
    \/ SubmitFinish(ClientReq)
    \/ TurnStart(ClientReq)
    \/ TurnFetched(ClientReq)
    \/ TurnPlaceholder(ClientReq)
    \/ TurnRead(ClientReq)
    \/ TurnUpdated(ClientReq)
    \/ ClientHandle
    \/ ClientReplay
    \/ ClientSettle

SpecClient == Init /\ [][NextClient]_vars

\* Users are created next to handles that connect and authenticate.
NextUsers ==
    \/ \E username \in Usernames : CreateUser(username)
    \/ \E c \in Conns : Connect(c)
    \/ \E c \in Conns : Auth(c)
    \/ \E c \in Conns : Close(c)
    \/ \E c \in Conns : CloseHandler(c)

SpecUsers == Init /\ [][NextUsers]_vars

\* The store with DELETE /api/clear: rows are stored, MaxRows of them in
\* all, removed by the reset, and queried.
NextReset ==
    \/ \E ins \in StoreInserts : nextId < MaxRows /\ StoreCreate(ins)
    \/ ClearAll
    \/ \E q \in Queries : GetMessages(q)

SpecReset == Init /\ [][NextReset]_vars

\* The lifecycle of the handles over a store whose status writes take
\* effect: handles connect, authenticate, authenticate again, close.
NextPresence ==
    \/ \E c \in Conns : Connect(c)
    \/ \E c \in Conns : Auth(c) /\ isOnline'[clients'[c].userId]
    \/ \E c \in Conns : AuthAgain(c) /\ isOnline'[clients'[c].userId]
    \/ \E c \in Conns : Close(c)
    \/ \E c \in Conns : CloseHandler(c) /\ c \notin DOMAIN clients'

SpecPresence == Init /\ [][NextPresence]_vars

\* A submission and its AI turn next to DELETE /api/clear.
NextResetTurn ==
    \/ \E r \in Solo : SubmitCreate(r, TurnsBody)
    \/ \E r \in Solo : SubmitFinish(r)
    \/ \E r \in Solo : TurnStart(r)
    \/ \E r \in Solo : TurnFetched(r)
    \/ \E r \in Solo : TurnPlaceholder(r)
    \/ \E r \in Solo : TurnRead(r)
    \/ \E r \in Solo : TurnUpdated(r)
    \/ ClearAll

SpecResetTurn == Init /\ [][NextResetTurn]_vars

\* One useWebSocket hook, rendered with a userId, another or none, and
\* unmounted, over sockets that open and close.
NextHook ==
    \/ \E userId \in Users \cup {None} : Render(userId)
    \/ Unmount
    \/ \E i \in DOMAIN hook.sockets : onopen(i)
    \/ \E i \in DOMAIN hook.sockets : onclose(i)
    \/ \E k \in DOMAIN hook.timers : TimerFires(k)

SpecHook == Init /\ [][NextHook]_vars

(* ------------------------- reading the history ------------------------ *)

IsPrefix(s, t) == Len(s) <= Len(t) /\ SubSeq(t, 1, Len(s)) = s

\* Broadcasts made for request r by its submit handler / by its AI turn.
SubmitSends(r) ==
    {i \in DOMAIN log :
        log[i].kind = "send" /\ log[i].req = r /\ log[i].by = "submit"}
TurnSends(r) ==
    {i \in DOMAIN log :
        log[i].kind = "send" /\ log[i].req = r /\ log[i].by = "turn"}

\* ... of which: the placeholder's MessageCreated, the final MessageUpdated.
PlaceholderSends(r) ==
    {i \in TurnSends(r) : log[i].event.type = "message" /\ log[i].event.data.isAI}
CompleteSends(r) ==
    {i \in TurnSends(r) :
        log[i].event.type = "message_update" /\ log[i].event.data.isComplete}

\* HTTP responses given to request r.
Responses(r) == {i \in DOMAIN log : log[i].kind = "respond" /\ log[i].req = r}

IsUpdate(e) == e.type = "message_update"

\* How a client reads one event.
EventKind(e) ==
    IF e.type = "message"
    THEN IF e.data.isAI THEN "placeholder" ELSE "user"
    ELSE IF e.data.isComplete THEN "complete" ELSE "partial"

\* The events handle c was sent about request r and its turn.
View(c, r) ==
    LET About(e) ==
            \/ e.data.id = req[r].message.id
            \/ turn[r].created > 0 /\ e.data.id = turn[r].aiMessage.id
    IN SelectSeq(inbox[c], About)

\* The claim's body reduced to the three things the rule names.
AuthoredByAI(body) == body.isAI = "true"
Scope(body) ==
    IF body.chatType = "private" THEN "PrivateWithAI"
    ELSE IF body.chatType \in {"general", Absent} THEN "General"
    ELSE "unrecognized"
Flag(body) == IF body.isAiActive = Absent THEN TRUE ELSE body.isAiActive = "true"

\* The user a private event belongs to; "everyone" for a general one.
Owner(e, store) ==
    IF e.type = "message"
    THEN IF e.data.chatType = "private" THEN e.data.privateChatUserId
         ELSE "everyone"
    ELSE LET rows == {i \in DOMAIN store : store[i].id = e.data.id} IN
         IF rows = {} THEN "everyone"
         ELSE LET m == store[CHOOSE i \in rows : TRUE] IN
              IF m.chatType = "private" THEN m.privateChatUserId
              ELSE "everyone"

\* Row m is in the sequence of rows res.
Returned(m, res) == \E i \in DOMAIN res : res[i] = m

\* What the last query returned, whichever backend answered it.
Results == {got.mem} \cup got.pg

\* Non-typing rows of the private conversation of user u.
PrivateRows(u) ==
    {k \in DOMAIN messages :
        /\ ~messages[k].isTyping
        /\ messages[k].chatType = "private"
        /\ messages[k].privateChatUserId = u}

(* ------------------------------- claims ------------------------------- *)

\* C1: every turn of an eligible General message, once it has returned
\* (whether generation succeeded, was unreachable or failed), has created and
\* broadcast exactly one isAI placeholder: never zero, never two.
C1_ExactlyOnePlaceholder ==
    \A r \in Reqs :
        (turn[r].pc = "returned" /\ turn[r].chatType = "general")
            => /\ Cardinality(PlaceholderSends(r)) = 1
               /\ turn[r].created = 1

\* C2: the contents of the MessageUpdated events of one message id, in the
\* order they were broadcast and in the order each handle was sent them, grow
\* by prefix extension, the isComplete=true event included.
C2_UpdatesGrowByPrefix ==
    /\ \A i, j \in DOMAIN log :
        (/\ i < j
         /\ log[i].kind = "send" /\ IsUpdate(log[i].event)
         /\ log[j].kind = "send" /\ IsUpdate(log[j].event)
         /\ log[i].event.data.id = log[j].event.data.id)
            => IsPrefix(log[i].event.data.content, log[j].event.data.content)
    /\ \A c \in Conns : \A i, j \in DOMAIN inbox[c] :
        (/\ i < j
         /\ IsUpdate(inbox[c][i]) /\ IsUpdate(inbox[c][j])
         /\ inbox[c][i].data.id = inbox[c][j].data.id)
            => IsPrefix(inbox[c][i].data.content, inbox[c][j].data.content)

\* C2 witness: a turn streamed two deltas and completed, and an open handle
\* was sent all three updates.
C2_Witness ==
    \E r \in Reqs, c \in Conns :
        /\ turn[r].pc = "returned"
        /\ Len(turn[r].fullResponse) = 2
        /\ CompleteSends(r) # {}
        /\ Len(SelectSeq(inbox[c], IsUpdate)) = 3

\* C3: a handle that has been open since the user's MessageCreated has, once
\* the turn has returned, been sent exactly: the user's message, the empty
\* placeholder, one or more partial updates, one complete update.
C3_TurnEventOrder ==
    \A r \in Reqs, c \in Conns :
        (/\ turn[r].pc = "returned"
         /\ readyState[c] = "OPEN"
         /\ View(c, r) # << >>
         /\ EventKind(View(c, r)[1]) = "user")
            => LET v == View(c, r) IN
               /\ Len(v) >= 4
               /\ EventKind(v[2]) = "placeholder"
               /\ v[2].data.content = << >>
               /\ \A k \in 3..(Len(v) - 1) : EventKind(v[k]) = "partial"
               /\ EventKind(v[Len(v)]) = "complete"

\* C4: a turn that ended in failure has broadcast a MessageUpdated with
\* isComplete=true whose content is the apology it returned, and the stored
\* placeholder holds that apology.
C4_FailedTurnCompletes ==
    \A r \in Reqs :
        (turn[r].pc = "returned" /\ turn[r].result \in {ConfigApology, TechApology})
            => /\ \E i \in CompleteSends(r) :
                    log[i].event.data.content = turn[r].result
               /\ \E k \in DOMAIN messages :
                    messages[k].isAI /\ messages[k].content = turn[r].result

\* C5: the id in the 200 response of a submission is the id in the
\* MessageCreated event broadcast for it, and the id every handle was sent.
C5_ResponseIdIsBroadcastId ==
    \A r \in Reqs :
        req[r].status = 200
            => /\ {log[i].event.data.id : i \in SubmitSends(r)}
                    = {req[r].response.message.id}
               /\ \A c \in Conns : \A k \in DOMAIN inbox[c] :
                    (inbox[c][k].type = "message" /\ ~inbox[c][k].data.isAI)
                        => \E q \in Reqs :
                            /\ req[q].status = 200
                            /\ inbox[c][k].data.id = req[q].response.message.id

\* C5 witness: a submission was answered 200 and an open handle was sent its
\* MessageCreated.
C5_Witness ==
    \E r \in Reqs, c \in Conns :
        /\ req[r].status = 200
        /\ \E k \in DOMAIN inbox[c] :
            inbox[c][k].data.id = req[r].response.message.id

\* C6: in submit, the message is persisted before it is broadcast, and it is
\* broadcast before the success response is given.
C6_PersistThenBroadcastThenRespond ==
    \A k \in DOMAIN log :
        (log[k].kind = "respond" /\ log[k].status = 200)
            => \E i, j \in DOMAIN log :
                /\ i < j /\ j < k
                /\ log[i] = Persisted(log[k].req, log[k].body.message.id)
                /\ j \in SubmitSends(log[k].req)
                /\ log[j].event.data.id = log[k].body.message.id
                /\ \E m \in DOMAIN messages :
                    messages[m].id = log[k].body.message.id

\* C6 witness: a success response was given while a handle was open.
C6_Witness ==
    \E k \in DOMAIN log, c \in Conns :
        /\ log[k].kind = "respond" /\ log[k].status = 200
        /\ \E n \in DOMAIN inbox[c] :
            inbox[c][n].data.id = log[k].body.message.id

\* C7: an accepted submission starts an AI turn exactly when it is not
\* AI-authored and its scope is PrivateWithAI, or General with the flag
\* (true when absent) true; the decision is taken once.
C7_EligibilityRule ==
    \A r \in Reqs :
        /\ req[r].status = 200
            => LET body == req[r].body
                   rule == /\ ~AuthoredByAI(body)
                           /\ \/ Scope(body) = "PrivateWithAI"
                              \/ Scope(body) = "General" /\ Flag(body)
               IN /\ (turn[r].pc # "none") <=> rule
                  /\ req[r].scheduled = IF rule THEN 1 ELSE 0
        /\ req[r].status # 200 => turn[r].pc = "none"
        /\ Cardinality({i \in DOMAIN log :
                            log[i].kind = "turn" /\ log[i].req = r}) <= 1

\* C7 witness: a General message without the flag started a turn, and the
\* turn has begun.
C7_Witness ==
    \E r \in Reqs :
        /\ req[r].status = 200
        /\ req[r].body.isAiActive = Absent
        /\ req[r].body.chatType = "general"
        /\ turn[r].pc = "fetching"

\* C8: a turn takes its first step only after the response of its request
\* was given; that response is a 200 with the stored message, given once, and
\* it stays what it was whatever the turn does.
C8_ResponseNeverAwaitsTurn ==
    \A r \in Reqs :
        turn[r].pc # "none"
            => /\ req[r].pc = "done"
               /\ req[r].status = 200
               /\ Cardinality(Responses(r)) = 1
               /\ \A k \in Responses(r) :
                    /\ log[k].status = 200
                    /\ log[k].body = req[r].response
                    /\ log[k].body.message = req[r].message
                    /\ \A i \in DOMAIN log :
                        (log[i].req = r /\ (log[i].kind = "turn" \/ i \in TurnSends(r)))
                            => k < i

\* C8 witness: a turn failed after its request had been answered 200.
C8_Witness ==
    \E r \in Reqs :
        /\ turn[r].pc = "returned"
        /\ turn[r].result = TechApology
        /\ req[r].status = 200

\* C9: whenever an event of a private conversation of user U is sent on a
\* handle, that handle is not authenticated as a user other than U.
C9_PrivateEventsOnlyToOwner ==
    [][\A c \in Conns :
          Len(inbox'[c]) > Len(inbox[c])
              => LET e == inbox'[c][Len(inbox'[c])] IN
                 Owner(e, messages) = "everyone"
                    \/ clients[c].userId \in {Owner(e, messages), None}]_vars

\* C10 as stated: a stored private message of U1 is returned by the private
\* query made with U1's id, and by no private query made with another
\* user's id nor by the general query.
C10_AsStated ==
    got.asked =>
        \A k \in DOMAIN messages :
            LET m == messages[k] IN
            (m.chatType = "private" /\ m.privateChatUserId \in Users)
                => /\ (got.chatType = "private" /\ got.userId = m.privateChatUserId)
                        => /\ Returned(m, got.mem)
                           /\ \A res \in got.pg : Returned(m, res)
                   /\ (got.chatType = "private" /\ got.userId # m.privateChatUserId)
                        => \A res \in Results : ~Returned(m, res)
                   /\ got.chatType = "general"
                        => \A res \in Results : ~Returned(m, res)

\* C10 as amended: a stored private message of U1 is returned only by the
\* private query made with U1's id; that query returns it when the message
\* is not a typing record and the limit is a number no smaller than the
\* number of non-typing messages of U1's private conversation.
C10_PrivateOnlyToOwner ==
    got.asked =>
        \A k \in DOMAIN messages :
            LET m == messages[k] IN
            (m.chatType = "private" /\ m.privateChatUserId \in Users)
                => /\ \A res \in Results :
                        Returned(m, res)
                            => /\ got.chatType = "private"
                               /\ got.userId = m.privateChatUserId
                   /\ (/\ got.chatType = "private"
                       /\ got.userId = m.privateChatUserId
                       /\ ~m.isTyping
                       /\ ~got.limit.nan
                       /\ got.limit.n >= Cardinality(PrivateRows(got.userId)))
                        => /\ Returned(m, got.mem)
                           /\ got.pg # {}
                           /\ \A res \in got.pg : Returned(m, res)

\* C10 witness: with a private message of u1 and one of u2 in the store, the
\* private query with u1's id returned u1's message and nothing else.
C10_Witness ==
    /\ got.asked /\ got.chatType = "private" /\ got.userId = "u1"
    /\ PrivateRows("u1") # {} /\ PrivateRows("u2") # {}
    /\ Len(got.mem) = 1 /\ got.mem[1].privateChatUserId = "u1"
    /\ \E res \in got.pg : Len(res) = 1 /\ res[1].privateChatUserId = "u1"

\* C11: when the submit handler broadcasts a General message, every handle
\* that is OPEN at that moment is sent the MessageCreated event carrying the
\* stored message: the handles of other users, of the author and of nobody.
C11_GeneralReachesEveryOpenHandle ==
    [][\A r \in Reqs :
          (/\ req[r].pc = "created" /\ req'[r].status = 200
           /\ req[r].message.chatType = "general")
              => \A c \in Conns :
                    readyState[c] = "OPEN"
                        => /\ Len(inbox'[c]) = Len(inbox[c]) + 1
                           /\ SubSeq(inbox'[c], 1, Len(inbox[c])) = inbox[c]
                           /\ inbox'[c][Len(inbox'[c])].type = "message"
                           /\ inbox'[c][Len(inbox'[c])].data = req[r].message]_vars

\* C11 witness: a General message of u1 was sent both to a handle of u1 and
\* to a handle of u2.
C11_Witness ==
    \E r \in Reqs, c, d \in Conns :
        /\ req[r].status = 200
        /\ req[r].message.chatType = "general" /\ req[r].message.userId = "u1"
        /\ readyState[c] = "OPEN" /\ readyState[d] = "OPEN"
        /\ clients[c].userId = "u1" /\ clients[d].userId = "u2"
        /\ \E k \in DOMAIN inbox[c] : inbox[c][k].data = req[r].message
        /\ \E k \in DOMAIN inbox[d] : inbox[d][k].data = req[r].message

\* The events handed to the broadcaster by the submit handlers and the AI
\* turns, in the order they were handed over.
Emitted ==
    LET sends == SelectSeq(log, LAMBDA e : e.kind = "send")
    IN [i \in DOMAIN sends |-> sends[i].event]

Broadcasts(by, e) ==
    \E i \in DOMAIN log' :
        /\ i > Len(log)
        /\ log'[i].kind = "send" /\ log'[i].by = by /\ log'[i].event = e

\* The event the step broadcasts, if it broadcasts.
Broadcast ==
    LET i == CHOOSE i \in DOMAIN log' : i > Len(log) /\ log'[i].kind = "send"
    IN log'[i]

IsBroadcast == \E i \in DOMAIN log' : i > Len(log) /\ log'[i].kind = "send"

\* C13: a handle leaving the OPEN state changes no AI turn and no stored
\* message; every event a turn broadcasts afterwards is sent to each handle
\* that is OPEN and to no other; a turn whose stream ends normally broadcasts
\* its MessageUpdated with isComplete=true, whatever has closed meanwhile.
C13_CloseDoesNotStopTurn ==
    [][/\ readyState' # readyState => (turn' = turn /\ messages' = messages)
       /\ (IsBroadcast /\ Broadcast.by = "turn")
            => \A c \in Conns :
                    inbox'[c] = IF readyState[c] = "OPEN"
                                THEN Append(inbox[c], Broadcast.event)
                                ELSE inbox[c]
       /\ \A r \in Reqs :
            (/\ turn[r].pc = "streaming" /\ turn'[r].pc = "returned"
             /\ turn'[r].result # TechApology)
                => Broadcasts("turn", UpdateEvent(turn[r].aiMessage.id,
                                                  turn[r].fullResponse, TRUE))]_vars

\* C13 witness: a handle closed while a turn was streaming; the turn then ran
\* to its complete event, and a handle that stayed open was sent the user's
\* message, the placeholder, an update and the complete event.
C13_Witness ==
    \E r \in Reqs, c, d \in Conns :
        /\ <<c, "turn", "streaming">> \in skipped
        /\ turn[r].pc = "returned" /\ CompleteSends(r) # {}
        /\ readyState[d] = "OPEN"
        /\ Len(View(d, r)) >= 4
        /\ EventKind(View(d, r)[Len(View(d, r))]) = "complete"

\* C14: a handle of the map that cannot be sent to (its socket is not OPEN,
\* a failed send having closed it) fails no operation: the step in which the
\* submit handler broadcasts also gives the 200 response, and what a submit
\* handler or a turn broadcasts is sent to every handle that is OPEN.
C14_SkippedHandleFailsNothing ==
    [][IsBroadcast
          => /\ \A c \in Conns :
                    readyState[c] = "OPEN"
                        => /\ inbox'[c] # inbox[c]
                           /\ inbox'[c][Len(inbox'[c])] = Broadcast.event
             /\ \A c \in Conns : readyState[c] # "OPEN" => inbox'[c] = inbox[c]
             /\ Broadcast.by = "submit"
                    => /\ req'[Broadcast.req].status = 200
                       /\ \E i \in DOMAIN log' :
                            i > Len(log) /\ log'[i].kind = "respond"
                                /\ log'[i].status = 200]_vars

\* C14 witness: a handle closed before the submit handler broadcast and was
\* still in the map then; the submission was answered 200 and the other
\* handle, open, was sent the message.
C14_Witness ==
    \E r \in Reqs, c, d \in Conns :
        /\ <<c, "submit", "created">> \in skipped
        /\ c \in DOMAIN clients /\ c \notin closeSeen
        /\ req[r].status = 200
        /\ readyState[d] = "OPEN"
        /\ \E k \in DOMAIN inbox[d] : inbox[d][k].data = req[r].message

\* The store writes of updateMessageTyping for user u, in the order made.
TypingWrites(u) ==
    SelectSeq(log, LAMBDA e : e.kind \in {"typing-delete", "typing-insert"}
                                /\ e.userId = u)

\* The typing rows of user u in the store.
TypingRowsOf(u) == SelectSeq(messages, LAMBDA m : m.userId = u /\ m.isTyping)

\* The latest store writes for u are those of two calls with isTyping = true,
\* the second begun after the first was over.
TwiceInARow(u) ==
    LET w == TypingWrites(u)
        k == Len(w)
    IN /\ k >= 4
       /\ w[k - 3].kind = "typing-delete" /\ w[k - 2].kind = "typing-insert"
       /\ w[k - 1].kind = "typing-delete" /\ w[k].kind = "typing-insert"
       /\ <<w[k - 3].conn, w[k - 3].n>> = <<w[k - 2].conn, w[k - 2].n>>
       /\ <<w[k - 1].conn, w[k - 1].n>> = <<w[k].conn, w[k].n>>
       /\ <<w[k - 3].conn, w[k - 3].n>> # <<w[k].conn, w[k].n>>

\* C15: after setTyping(U, true) twice in a row the store holds exactly one
\* typing row of U, with empty content and isTyping = true.
C15_TypingTwiceLeavesOne ==
    \A u \in Users :
        TwiceInARow(u)
            => /\ Len(TypingRowsOf(u)) = 1
               /\ TypingRowsOf(u)[1].content = << >>
               /\ TypingRowsOf(u)[1].isTyping

\* C15 witness: two 'typing' frames with isTyping = true of one user were
\* handled one after the other.
C15_Witness ==
    \E u \in Users : TwiceInARow(u) /\ TypingRowsOf(u) # << >>

\* C16: in every reachable store state each user has at most one typing row
\* and every typing row has empty content.
C16_TypingRowsInvariant ==
    /\ \A u \in Users : Len(TypingRowsOf(u)) <= 1
    /\ \A i \in DOMAIN messages :
            messages[i].isTyping => messages[i].content = << >>

\* C17: the step in which the 'typing' handler of handle c broadcasts sends
\* the event {userId, isTyping} of the frame to every OPEN handle other than c
\* and not to c; the store is not touched in that step, the typing rows of the
\* user were removed before it, and the fresh row was added after that and
\* before the step exactly when isTyping is true.
C17_TypingToOthersAfterStore ==
    [][\A c \in Conns :
          (/\ Len(log') = Len(log) + 1
           /\ log'[Len(log')].kind = "typing-send"
           /\ log'[Len(log')].conn = c)
              => LET e == log'[Len(log')].event
                     n == log'[Len(log')].n
                     u == typing[c].userId
                     Del == {i \in DOMAIN log : log[i] = TypingDeleted(c, n, u)}
                     Ins == {i \in DOMAIN log : log[i] = TypingInserted(c, n, u)}
                 IN /\ e.type = "typing"
                    /\ e.data.userId = u /\ u # None
                    /\ e.data.isTyping = typing[c].isTyping
                    /\ inbox'[c] = inbox[c]
                    /\ \A d \in Conns \ {c} :
                          inbox'[d] = IF readyState[d] = "OPEN"
                                      THEN Append(inbox[d], e)
                                      ELSE inbox[d]
                    /\ messages' = messages
                    /\ Del # {}
                    /\ typing[c].isTyping
                          <=> \E i \in Del, j \in Ins : i < j]_vars

\* C17 witness: the handle of one user broadcast isTyping = true; the open
\* handle of another user holds the event and the sender's handle, open as
\* well, does not.
C17_Witness ==
    \E c, d \in Conns :
        /\ readyState[c] = "OPEN" /\ readyState[d] = "OPEN"
        /\ clients[c].userId # None /\ clients[d].userId # None
        /\ clients[c].userId # clients[d].userId
        /\ \E i \in DOMAIN log :
              /\ log[i].kind = "typing-send" /\ log[i].conn = c
              /\ log[i].event.data.isTyping
              /\ \E k \in DOMAIN inbox[d] : inbox[d][k] = log[i].event
              /\ \A k \in DOMAIN inbox[c] : inbox[c][k] # log[i].event

\* C18: GET /api/messages returns at most `limit` messages whatever the
\* limit is (a limit below 0 allows none; a limit that is not a number is
\* left free here), and when more than `limit` rows are visible it returns
\* the `limit` latest of them.
C18_AtMostLimit ==
    (got.asked /\ ~got.limit.nan)
        => \A res \in Results :
              LET cap == IF got.limit.n < 0 THEN 0 ELSE got.limit.n
              IN /\ Len(res) <= cap
                 /\ \A k \in DOMAIN messages :
                        (/\ MemVisible(messages[k], got.chatType, got.userId)
                         /\ ~Returned(messages[k], res))
                            => /\ Len(res) = cap
                               /\ \A i \in DOMAIN res :
                                     res[i].timestamp >= messages[k].timestamp

\* C19: GET /api/messages returns no typing row, only rows of the scope
\* asked for (for the private scope: of the conversation of the user asked
\* for), and in ascending order of timestamp.
C19_ScopedNonTypingAscending ==
    got.asked
        => \A res \in Results :
              /\ \A i \in DOMAIN res :
                    /\ ~res[i].isTyping
                    /\ res[i].chatType = got.chatType
                    /\ got.chatType = "private"
                          => res[i].privateChatUserId = got.userId
              /\ \A i, j \in DOMAIN res :
                    i < j => res[i].timestamp <= res[j].timestamp

\* C20: a submission whose body the schema rejects is answered with a 4xx
\* status, stores no message, broadcasts nothing and schedules no AI turn.
C20_MalformedIsClientError ==
    \A r \in Reqs :
        (req[r].pc = "done" /\ ~ParseOk(req[r].body))
            => /\ req[r].status \in 400..499
               /\ req[r].message = NoObject
               /\ req[r].scheduled = 0
               /\ turn[r].pc = "none"
               /\ \A i \in DOMAIN log :
                     log[i].kind \in {"persist", "send"} => log[i].req # r

\* C21: every stored message has chatType "general" or "private", and every
\* stored private message names the user it belongs to.
C21_StoredShapesAreValid ==
    \A i \in DOMAIN messages :
        /\ messages[i].chatType \in {"general", "private"}
        /\ messages[i].chatType = "private"
              => messages[i].privateChatUserId # None

\* History entries of kind k written for request r.
EntriesOf(r, k) == {i \in DOMAIN log : log[i].kind = k /\ log[i].req = r}

\* The handler of request r has parsed its body and storage.createMessage
\* has not stored a row for it.
CreateFailed(r) ==
    /\ req[r].pc # "idle"
    /\ ParseOk(req[r].body)
    /\ EntriesOf(r, "persist") = {}

\* C22: when storage.createMessage fails, the request is answered 500, once,
\* no row is stored for it, nothing is broadcast for it and no AI turn is
\* scheduled.
C22_PersistenceFailureIs500 ==
    \A r \in Reqs :
        CreateFailed(r)
            => /\ req[r].pc = "done" /\ req[r].status = 500
               /\ \A i \in EntriesOf(r, "respond") : log[i].status = 500
               /\ Cardinality(EntriesOf(r, "respond")) = 1
               /\ EntriesOf(r, "send") = {}
               /\ req[r].scheduled = 0 /\ turn[r].pc = "none"
               /\ \A c \in Conns : inbox[c] = << >>

\* C22 witness: createMessage failed for a well-formed body while a handle
\* was open.
C22_Witness ==
    \E r \in Reqs, c \in Conns :
        /\ CreateFailed(r) /\ req[r].status = 500
        /\ messages = << >>
        /\ readyState[c] = "OPEN"

\* C23: once the 'close' handler of a handle has run, the handle is no longer
\* in the clients map.
C23_ClosedHandleLeavesRegistry ==
    \A c \in closeSeen : c \notin DOMAIN clients

\* The step sends the 'user_status' event of (u, v) to exactly the handles
\* that are OPEN.
StatusBroadcast(u, v) ==
    \A d \in Conns :
        statusBox'[d] = IF readyState[d] = "OPEN"
                        THEN Append(statusBox[d], StatusEvent(u, v))
                        ELSE statusBox[d]

\* The step writes the online flag v of user u and nothing else of the users.
StatusWritten(u, v) ==
    /\ isOnline'[u] = v
    /\ \A w \in DOMAIN isOnline \ {u} : isOnline'[w] = isOnline[w]

\* C24: a connecting handle enters the map without identity, with no status
\* write and no status event; an 'auth' frame attaches the user, and its
\* status write sets the user online and is followed by the 'user_status'
\* event (u, true) on every OPEN handle; the 'close' handler of a handle with
\* identity sets the user offline and sends (u, false) to every OPEN handle;
\* the 'close' handler of a handle without identity writes and sends nothing.
\* When the status write fails, nothing is written and nothing is sent.
C24_PresenceEffects ==
    [][\A c \in Conns :
          /\ (readyState[c] = "CONNECTING" /\ readyState'[c] = "OPEN")
                => /\ c \in DOMAIN clients' /\ clients'[c].userId = None
                   /\ isOnline' = isOnline /\ statusBox' = statusBox
          /\ (/\ c \in DOMAIN clients /\ c \in DOMAIN clients'
              /\ clients'[c].userId # clients[c].userId)
                => LET u == clients'[c].userId IN
                   \/ StatusWritten(u, TRUE) /\ StatusBroadcast(u, TRUE)
                   \/ isOnline' = isOnline /\ statusBox' = statusBox
          /\ (c \notin closeSeen /\ c \in closeSeen')
                => LET u == clients[c].userId IN
                   IF u = None
                   THEN isOnline' = isOnline /\ statusBox' = statusBox
                   ELSE \/ StatusWritten(u, FALSE) /\ StatusBroadcast(u, FALSE)
                        \/ isOnline' = isOnline /\ statusBox' = statusBox]_vars

\* C24 witness: a handle authenticated as u and was torn down; the user is
\* offline and an open handle was sent (u, true) and then (u, false).
C24_Witness ==
    \E c, d \in Conns, u \in Users :
        /\ c \in closeSeen /\ c \notin DOMAIN clients
        /\ readyState[d] = "OPEN"
        /\ ~isOnline[u]
        /\ statusBox[d] = <<StatusEvent(u, TRUE), StatusEvent(u, FALSE)>>

\* The AI turn of request r is the one that stored the row of this id and it
\* is the only turn that moves in the step.
OwnTurnMoves(r, id) ==
    /\ turn[r].pc = "streaming"
    /\ turn[r].aiMessage.id = id
    /\ turn'[r] # turn[r]
    /\ \A q \in Reqs \ {r} : turn'[q] = turn[q]
    /\ \E i \in DOMAIN log : log[i] = Persisted(r, id)

\* C25: in every step each stored row stays in its place with its id, userId,
\* isAI, timestamp, isTyping, chatType and privateChatUserId; its content
\* changes only if it is an AI row, the step is one of the turn that stored
\* it, and the new content is that turn's accumulated text.
C25_MutationDiscipline ==
    [][\A i \in DOMAIN messages :
          /\ i \in DOMAIN messages'
          /\ [messages'[i] EXCEPT !.content = messages[i].content] = messages[i]
          /\ messages'[i].content # messages[i].content
                => /\ messages[i].isAI /\ messages[i].userId = None
                   /\ \E r \in Reqs :
                         /\ OwnTurnMoves(r, messages[i].id)
                         /\ messages'[i].content = turn'[r].fullResponse]_vars

\* C25 witness: the placeholders of two turns are stored; one turn has
\* written its text into its own row while the row of the other turn is
\* still empty and the rows of the user are as submitted.
C25_Witness ==
    \E r, q \in Reqs, i, j \in DOMAIN messages :
        /\ r # q
        /\ turn[r].created = 1 /\ turn[q].created = 1
        /\ messages[i].id = turn[r].aiMessage.id
        /\ messages[j].id = turn[q].aiMessage.id
        /\ messages[i].content # << >>
        /\ messages[i].content = turn[r].fullResponse
        /\ messages[j].content = << >>
        /\ \A k \in DOMAIN messages :
              ~messages[k].isAI => messages[k].content = UserText

\* C26: once a turn has broadcast its MessageUpdated with isComplete = true,
\* the stored row of the placeholder holds the content of that event, and no
\* later MessageUpdated of the turn follows it.
C26_FinalContentIsStored ==
    \A r \in Reqs :
        \A i \in CompleteSends(r) :
            /\ \A k \in DOMAIN messages :
                  messages[k].id = log[i].event.data.id
                      => messages[k].content = log[i].event.data.content
            /\ \A j \in TurnSends(r) : j <= i

\* C27: the reset that deletes the users leaves no message, typing rows
\* included, and no user; GET /api/users then has nothing to return, and a
\* GET /api/messages answered while the store is empty returns no message.
C27_ResetEmptiesStore ==
    [][/\ (getAllUsers(users) # {} /\ getAllUsers(users') = {})
            => messages' = << >> /\ DOMAIN isOnline' = {}
       /\ (got'.asked /\ getAllUsers(users) = {} /\ messages = << >>)
            => got'.mem = << >> /\ \A res \in got'.pg : res = << >>]_vars

\* C27 witness: rows were stored, the reset has removed them and the users,
\* and a query with the default limit was answered with no message.
C27_Witness ==
    /\ nextId = MaxRows
    /\ messages = << >> /\ getAllUsers(users) = {}
    /\ got.asked /\ got.limit = Num(DefaultLimit)
    /\ got.mem = << >> /\ got.pg = {<< >>}

\* C28: no two rows of the users table have the same username.
C28_UsernamesUnique ==
    \A i, j \in DOMAIN users : i # j => users[i] # users[j]

\* Entries of the client's list with this id.
EntriesWith(id) == {i \in DOMAIN cache.list : cache.list[i].id = id}

\* The client has handled the 'message' event of its own submission.
EchoHandled ==
    \E k \in 1..cache.handled :
        /\ inbox[ClientConn][k].type = "message"
        /\ inbox[ClientConn][k].data.id = req[ClientReq].message.id

\* C29: once the client has handled both the 200 response and the
\* MessageCreated echo of its submission, in whichever order, its list holds
\* exactly one entry with the stored id and none with the temporary id; and
\* its list never holds two entries with one id.
C29_OneEntryPerMessage ==
    /\ (cache.sent = "ok" /\ EchoHandled)
          => /\ Cardinality(EntriesWith(req[ClientReq].message.id)) = 1
             /\ EntriesWith(TempId) = {}
    /\ \A i, j \in DOMAIN cache.list :
          i # j => cache.list[i].id # cache.list[j].id

\* The MessageUpdated events with isComplete = false broadcast by turn r.
PartialSends(r) ==
    {i \in TurnSends(r) :
        log[i].event.type = "message_update" /\ ~log[i].event.data.isComplete}

\* The store writes of turn r: the placeholder's insert and its updates.
TurnWrites(r) == {i \in DOMAIN log : log[i].kind = "persist" /\ log[i].req = r
                                       /\ turn[r].created > 0
                                       /\ log[i].id = turn[r].aiMessage.id}

\* C30: a turn broadcasts MessageUpdated with isComplete = false only right
\* after it has written the same, full accumulated text to the placeholder's
\* row, which holds that text at the moment of the broadcast; and it takes
\* the next delta only when every such write has had its broadcast.
C30_PersistThenBroadcastPerDelta ==
    [][\A r \in Reqs :
          /\ (/\ IsBroadcast /\ Broadcast.by = "turn" /\ Broadcast.req = r
              /\ Broadcast.event.type = "message_update"
              /\ ~Broadcast.event.data.isComplete)
                => LET e == Broadcast.event.data IN
                   /\ e.content = turn[r].fullResponse
                   /\ \E k \in DOMAIN messages :
                         messages[k].id = e.id /\ messages[k].content = e.content
                   /\ messages' = messages
                   /\ LET mine == EntriesOf(r, "persist") \cup EntriesOf(r, "send")
                          last == CHOOSE i \in mine : \A j \in mine : j <= i
                      IN log[last] = Persisted(r, e.id)
                   /\ Cardinality(TurnWrites(r)) = Cardinality(PartialSends(r)) + 2
          /\ turn'[r].chunks > turn[r].chunks
                => Cardinality(TurnWrites(r)) = Cardinality(PartialSends(r)) + 1]_vars

\* C30 witness: a turn has stored and broadcast two updates, the second with
\* both deltas, and an open handle was sent them.
C30_Witness ==
    \E r \in Reqs, c \in Conns :
        /\ Cardinality(PartialSends(r)) = 2
        /\ Len(turn[r].fullResponse) = 2
        /\ readyState[c] = "OPEN"
        /\ \E k \in DOMAIN inbox[c] :
              inbox[c][k] = UpdateEvent(turn[r].aiMessage.id,
                                        turn[r].fullResponse, FALSE)

\* The row of id `id`, as the store holds it.
RowOf(id) == messages[CHOOSE i \in DOMAIN messages : messages[i].id = id]

\* C31: the placeholder of a turn is created with empty content, isAI true,
\* isTyping false and no author, and with the chatType and the
\* privateChatUserId of the stored triggering message; the store holds it
\* under that scope, and a query of that scope (the general chat, or the
\* private chat of the user named) returns it, from either backend.
C31_PlaceholderInheritsScope ==
    \A r \in Solo :
        turn[r].created > 0 =>
            LET p == turn[r].aiMessage
                m == req[r].message
                row == RowOf(p.id)
                scoped == p.chatType = "general" \/ p.privateChatUserId # None
            IN /\ p.content = << >> /\ p.isAI /\ ~p.isTyping /\ p.userId = None
               /\ p.chatType = m.chatType
               /\ p.privateChatUserId = m.privateChatUserId
               /\ \E i \in DOMAIN messages : messages[i].id = p.id
               /\ row.isAI /\ ~row.isTyping /\ row.userId = None
               /\ row.chatType = m.chatType
               /\ row.privateChatUserId = m.privateChatUserId
               /\ scoped =>
                    /\ Returned(row, MemGetMessages(messages, Num(DefaultLimit),
                                                    p.chatType, p.privateChatUserId))
                    /\ \A res \in PgGetMessages(messages, Num(DefaultLimit),
                                                p.chatType, p.privateChatUserId) :
                            Returned(row, res)
                    /\ PgGetMessages(messages, Num(DefaultLimit), p.chatType,
                                     p.privateChatUserId) # {}

\* The reply to a private message of u1 is stored, next to the message.
C31_Witness ==
    /\ turn[1].created = 1
    /\ req[1].message.chatType = "private"
    /\ req[1].message.privateChatUserId = "u1"
    /\ Len(messages) = 2

\* Where a callQwenAPI invocation is: Created from its scheduling until the
\* placeholder is broadcast, Streaming while it reads the response body,
\* Finalized once it has returned the reply, Failed once it has returned
\* one of its two apologies.
Phase(t) ==
    CASE t.pc = "none" -> "Idle"
      [] t.pc \in {"scheduled", "fetching", "placeholder"} -> "Created"
      [] t.pc \in {"streaming", "updating"} -> "Streaming"
      [] t.pc = "returned" /\ t.result \in {ConfigApology, TechApology} -> "Failed"
      [] OTHER -> "Finalized"

\* C32: a turn moves Created -> Streaming -> Finalized, and to Failed only
\* from Created or Streaming; Finalized and Failed are final; callQwenAPI is
\* started at most once for a triggering message and stores at most one
\* placeholder; and when every step that can be taken is taken and the
\* stream ends, a scheduled turn ends in Finalized or Failed.
C32_TurnStateMachine ==
    /\ [][\A r \in Solo :
            \/ Phase(turn[r])' = Phase(turn[r])
            \/ <<Phase(turn[r]), Phase(turn[r])'>> \in
                    {<<"Idle", "Created">>, <<"Created", "Streaming">>,
                     <<"Streaming", "Finalized">>, <<"Created", "Failed">>,
                     <<"Streaming", "Failed">>}]_vars
    /\ [](\A r \in Solo :
            /\ Cardinality({i \in DOMAIN log : log[i] = Started(r)}) <= 1
            /\ turn[r].created <= 1)
    /\ \A r \in Solo :
            (Phase(turn[r]) = "Created")
                ~> (Phase(turn[r]) \in {"Finalized", "Failed"})

\* A turn has gone all the way: it returned the text of two deltas.
C32_Witness ==
    /\ Phase(turn[1]) = "Finalized"
    /\ Len(turn[1].fullResponse) = MaxChunks
    /\ turn[1].created = 1

\* C33: the delays asked of setTimeout since a socket last opened are 1 s,
\* 2 s, 4 s, 8 s, 16 s in this order, one per failed attempt; the attempt
\* counter never passes maxReconnectAttempts; it is 0 while a socket is open;
\* and the first frame sent on an open socket is the 'auth' frame with the
\* userId of the effect that made the socket.
C33_ReconnectBackoff ==
    /\ IsPrefix(hook.delays, <<1000, 2000, 4000, 8000, 16000>>)
    /\ hook.reconnectAttempts <= maxReconnectAttempts
    /\ \A i \in DOMAIN hook.sockets :
          hook.sockets[i].readyState = "OPEN"
              => /\ hook.reconnectAttempts = 0
                 /\ hook.sockets[i].sent # << >>
                 /\ hook.sockets[i].sent[1] = AuthFrame(hook.sockets[i].userId)

\* Sockets of the hook that are connecting or open.
LiveSockets ==
    {i \in DOMAIN hook.sockets :
        hook.sockets[i].readyState \in {"CONNECTING", "OPEN"}}

\* C35: every socket that is connecting or open was made for the userId the
\* hook is mounted with (none after an unmount), there is at most one, and
\* no reconnect is pending for another userId.
C35_NoReconnectAfterCleanup ==
    /\ \A i \in LiveSockets : hook.sockets[i].userId = hook.userId
    /\ Cardinality(LiveSockets) <= 1
    /\ \A k \in DOMAIN hook.timers :
          hook.timers[k].state = "pending" => hook.timers[k].userId = hook.userId

\* No 'close' handler is still to run.
Quiescent == \A c \in Conns : readyState[c] = "CLOSED" => c \in closeSeen

\* C34: whenever no lifecycle handler is in flight, a user is marked online
\* in the store if and only if a registered connection carries that user's
\* identity.
C34_PresenceConsistency ==
    Quiescent =>
        \A u \in DOMAIN isOnline :
            isOnline[u] <=> \E c \in DOMAIN clients : clients[c].userId = u

\* C36: whenever a turn broadcasts a MessageUpdated event, partial or
\* complete, the store holds a row of the id the event names.
C36_UpdatesNameStoredRows ==
    [][\A r \in Solo :
          (/\ Len(log') = Len(log) + 1
           /\ log'[Len(log')].kind = "send"
           /\ log'[Len(log')].req = r
           /\ IsUpdate(log'[Len(log')].event))
              => \E i \in DOMAIN messages' :
                    messages'[i].id = log'[Len(log')].event.data.id]_vars

\* C37: once POST /api/messages has answered with an error status, the
\* store holds no message of that request, none was broadcast for it and no
\* AI turn was scheduled for it.
C37_ErrorLeavesNothing ==
    \A r \in Solo :
        (req[r].pc = "done" /\ req[r].status # 200)
            => /\ \A i \in DOMAIN messages : messages[i] # req[r].message
               /\ EntriesOf(r, "persist") = {}
               /\ SubmitSends(r) = {}
               /\ req[r].scheduled = 0
               /\ turn[r].pc = "none"

\* C38: a query with the default limit is answered by PostgresStorage with
\* exactly the list MemStorage answers with, whatever chatType and userId
\* it names.
C38_BackendsAgree ==
    (got.asked /\ got.limit = Num(DefaultLimit)) => got.pg = {got.mem}

====
